---- MODULE Spec2Model ----
(***************************************************************************)
(* Model of the record-to-Parquet converters of brrrr-lib                  *)
(* (src/brrrr-lib/src/parquet_writer.rs): gff2pq, fa2pq with               *)
(* write_records_to_file, and fq2pq.                                       *)
(*                                                                         *)
(* One behaviour is one conversion call. The decoder is a lazy source: it  *)
(* yields the next decode result when the chunk iterator pulls it, and     *)
(* `pulled` is the input read so far. The chunk iterator is                *)
(* itertools' `chunks(chunk_size)`, which reads one element ahead at a     *)
(* chunk boundary. Builders, batches and the sink are the arrow/parquet    *)
(* objects the converters drive.                                           *)
(***************************************************************************)
EXTENDS Integers, Sequences, FiniteSets, TLC

\* Longest input (decode results) a run reads.
MaxLen ==
  4

\* Largest chunk size a run is started with (the code fixes 2^20).
MaxChunkSize ==
  3

VARIABLES
  conv,        \* which converter runs: "gff2pq", "fa2pq" or "fq2pq"
  chunk_size,  \* chunk_size
  pc,          \* position of the converter in its body
  pulled,      \* decode results the decoder has yielded so far, in order
  chunks,      \* state of records.into_iter().chunks(chunk_size)
  builders,    \* the column builders
  read_number, \* fq2pq's read_number
  in_opened,   \* fs::File::open(input) succeeded
  out_created, \* fs::File::create(output) succeeded
  sink_state,  \* "Unopened", "Open" or "Closed" (the ArrowWriter)
  sink,        \* batches the writer accepted, in write order
  close_calls, \* number of writer.close() calls made
  consumed,    \* records appended since the current chunk began
  result,      \* "none" while running, then "Ok", "Err" or "panic"
  error        \* the failure returned or panicked with, "none" otherwise

vars ==
  <<conv, chunk_size, pc, pulled, chunks, builders, read_number, in_opened,
    out_created, sink_state, sink, close_calls, consumed, result, error>>

Converters ==
  {"gff2pq", "fa2pq", "fq2pq"}

-----------------------------------------------------------------------------
(* Values *)

\* An absent optional field of a source record.
NONE ==
  <<"none", 0>>

\* A null entry of a column (append_null).
NULL ==
  <<"null", 0>>

\* The text a String field holds when the source expressed no value.
AbsentText ==
  <<"", 0>>

NoElt ==
  [kind |-> "NoElt"]

\* The columns of each output schema, in schema order.
FileSchema(c) ==
  IF c = "gff2pq" THEN
    << [name |-> "seqname",   type |-> "Utf8",  nullable |-> FALSE],
       [name |-> "source",    type |-> "Utf8",  nullable |-> TRUE],
       [name |-> "feature",   type |-> "Utf8",  nullable |-> FALSE],
       [name |-> "start",     type |-> "Int64", nullable |-> FALSE],
       [name |-> "end",       type |-> "Int64", nullable |-> FALSE],
       [name |-> "score",     type |-> "Int64", nullable |-> TRUE],
       [name |-> "strand",    type |-> "Utf8",  nullable |-> FALSE],
       [name |-> "frame",     type |-> "Utf8",  nullable |-> TRUE],
       [name |-> "attribute", type |-> "Map",   nullable |-> FALSE] >>
  ELSE IF c = "fa2pq" THEN
    << [name |-> "id",          type |-> "Utf8", nullable |-> FALSE],
       [name |-> "description", type |-> "Utf8", nullable |-> TRUE],
       [name |-> "sequence",    type |-> "Utf8", nullable |-> FALSE] >>
  ELSE
    << [name |-> "id",          type |-> "Utf8",  nullable |-> FALSE],
       [name |-> "sequence",    type |-> "Utf8",  nullable |-> FALSE],
       [name |-> "description", type |-> "Utf8",  nullable |-> TRUE],
       [name |-> "quality",     type |-> "Utf8",  nullable |-> FALSE],
       [name |-> "number",      type |-> "Int64", nullable |-> TRUE] >>

ColumnNames(c) ==
  {FileSchema(c)[i].name : i \in 1..Len(FileSchema(c))}

-----------------------------------------------------------------------------
(* The decoder and the source records *)

\* The optional fields a source record may leave out, and the attribute
\* lists it may carry (GFF only): the shapes a decoded record is drawn from.
RecordShapes(c) ==
  IF c = "gff2pq" THEN
    { [absent |-> {},
       attrs  |-> << <<"k1", <<"v1", 0>> >>, <<"k2", NONE>> >>],
      [absent |-> {"source"}, attrs |-> << >>],
      [absent |-> {"score"},  attrs |-> << <<"k1", <<"v1", 0>> >> >>],
      [absent |-> {"frame"},  attrs |-> << <<"k2", NONE>> >>],
      [absent |-> {"source", "score", "frame"},
       attrs  |-> << <<"k3", <<"v3", 0>> >> >>] }
  ELSE
    { [absent |-> {}, attrs |-> << >>],
      [absent |-> {"description"}, attrs |-> << >>] }

\* What the decoder can yield at input position p (0-based): a record that
\* decoded, or a parse error.
DecodeResults(c, p) ==
  { [kind |-> "Ok", pos |-> p, absent |-> s.absent, attrs |-> s.attrs] :
      s \in RecordShapes(c) }
  \cup { [kind |-> "Err", pos |-> p, absent |-> {}, attrs |-> << >>] }

\* Field f of the source record at position rec.pos; NONE when left out.
SourceField(rec, f) ==
  IF f \in rec.absent THEN NONE ELSE <<f, rec.pos>>

\* All orders in which a map of the given entries may be iterated.
IterationOrders(attrs) ==
  LET n == Len(attrs)
      perms == {f \in [1..n -> 1..n] : \A i, j \in 1..n : i # j => f[i] # f[j]}
  IN {[i \in 1..n |-> attrs[f[i]]] : f \in perms}

\* FastaRecord::from, FastqRecord::from and GffRecord::from: the typed record
\* the converter appends from. description, score and frame are Options (the
\* converters match on them); GFF source and the attribute values are plain
\* Strings (they go to append_value as they are), so a value the source left
\* out arrives as text. `order` is the order in which the attribute map is
\* iterated, the same for keys() and values().
RecordFrom(c, rec, order) ==
  IF c = "gff2pq" THEN
    [seqname   |-> SourceField(rec, "seqname"),
     source    |-> IF "source" \in rec.absent THEN AbsentText
                   ELSE SourceField(rec, "source"),
     feature   |-> SourceField(rec, "feature"),
     start     |-> SourceField(rec, "start"),
     end       |-> SourceField(rec, "end"),
     score     |-> SourceField(rec, "score"),
     strand    |-> SourceField(rec, "strand"),
     frame     |-> SourceField(rec, "frame"),
     attribute |-> [i \in 1..Len(order) |->
                      <<order[i][1],
                        IF order[i][2] = NONE THEN AbsentText ELSE order[i][2]>>]]
  ELSE IF c = "fa2pq" THEN
    [id          |-> SourceField(rec, "id"),
     description |-> SourceField(rec, "description"),
     sequence    |-> SourceField(rec, "sequence")]
  ELSE
    [id          |-> SourceField(rec, "id"),
     description |-> SourceField(rec, "description"),
     sequence    |-> SourceField(rec, "sequence"),
     quality     |-> SourceField(rec, "quality")]

-----------------------------------------------------------------------------
(* Builders, arrays and batches *)

\* fq2pq hands its arrays over in the order in which it finishes them
\* (id, description, sequence, quality, number), not in schema order.
BatchOrderMut(c) ==
  IF c = "gff2pq" THEN
    <<"seqname", "source", "feature", "start", "end", "score", "strand",
      "frame", "attribute">>
  ELSE IF c = "fa2pq" THEN
    <<"id", "desc", "seq">>
  ELSE
    <<"id", "desc", "seq", "quality", "read_number">>

\* The builders of each converter, by the name of the builder variable, in
\* the order in which their arrays are handed to RecordBatch::try_new.
BatchOrder(c) ==
  IF c = "gff2pq" THEN
    <<"seqname", "source", "feature", "start", "end", "score", "strand",
      "frame", "attribute">>
  ELSE IF c = "fa2pq" THEN
    <<"id", "desc", "seq">>
  ELSE
    <<"id", "seq", "desc", "quality", "read_number">>

BuilderNames(c) ==
  {BatchOrder(c)[i] : i \in 1..Len(BatchOrder(c))}

\* The type of array a builder finishes into.
BuilderType(b) ==
  IF b \in {"start", "end", "score", "read_number"} THEN "Int64"
  ELSE IF b = "attribute" THEN "Map"
  ELSE "Utf8"

\* StringBuilder::new, Int64Builder::new, Vec::with_capacity, MapBuilder::new.
NewBuilder(b) ==
  IF b = "attribute"
    THEN [keys |-> << >>, values |-> << >>, offsets |-> << >>]
    ELSE << >>

NewBuilders(c) ==
  [b \in BuilderNames(c) |-> NewBuilder(b)]

\* append_value / Vec::push
AppendValue(col, x) ==
  Append(col, x)

\* append_null
AppendNull(col) ==
  Append(col, NULL)

\* match field { Some(x) => append_value(x), None => append_null() }
AppendOption(col, x) ==
  IF x = NONE THEN AppendNull(col) ELSE AppendValue(col, x)

\* Every key to keys(), every value to values(), then append(true), which
\* seals one map entry at the current end of the key builder.
AppendAttribute(m, entries) ==
  LET ks == m.keys \o [i \in 1..Len(entries) |-> entries[i][1]]
      vs == m.values \o [i \in 1..Len(entries) |-> entries[i][2]]
  IN [keys |-> ks, values |-> vs, offsets |-> Append(m.offsets, Len(ks))]

\* The number appended is the record's index within its chunk: the count
\* restarts at every chunk.
AppendRecordMut(c, bs, r, n) ==
  IF c = "gff2pq" THEN
    [seqname   |-> AppendValue(bs.seqname, r.seqname),
     source    |-> AppendValue(bs.source, r.source),
     feature   |-> AppendValue(bs.feature, r.feature),
     start     |-> AppendValue(bs.start, r.start),
     end       |-> AppendValue(bs.end, r.end),
     score     |-> AppendOption(bs.score, r.score),
     strand    |-> AppendValue(bs.strand, r.strand),
     frame     |-> AppendOption(bs.frame, r.frame),
     attribute |-> AppendAttribute(bs.attribute, r.attribute)]
  ELSE IF c = "fa2pq" THEN
    [id   |-> AppendValue(bs.id, r.id),
     desc |-> AppendOption(bs.desc, r.description),
     seq  |-> AppendValue(bs.seq, r.sequence)]
  ELSE
    [id          |-> AppendValue(bs.id, r.id),
     desc        |-> AppendOption(bs.desc, r.description),
     seq         |-> AppendValue(bs.seq, r.sequence),
     quality     |-> AppendValue(bs.quality, r.quality),
     read_number |-> AppendValue(bs.read_number, <<"number", Len(bs.read_number)>>)]

\* The body of the inner loop for a record that decoded: one append to every
\* builder. r is the typed record, n the value of read_number.
AppendRecord(c, bs, r, n) ==
  IF c = "gff2pq" THEN
    [seqname   |-> AppendValue(bs.seqname, r.seqname),
     source    |-> AppendValue(bs.source, r.source),
     feature   |-> AppendValue(bs.feature, r.feature),
     start     |-> AppendValue(bs.start, r.start),
     end       |-> AppendValue(bs.end, r.end),
     score     |-> AppendOption(bs.score, r.score),
     strand    |-> AppendValue(bs.strand, r.strand),
     frame     |-> AppendOption(bs.frame, r.frame),
     attribute |-> AppendAttribute(bs.attribute, r.attribute)]
  ELSE IF c = "fa2pq" THEN
    [id   |-> AppendValue(bs.id, r.id),
     desc |-> AppendOption(bs.desc, r.description),
     seq  |-> AppendValue(bs.seq, r.sequence)]
  ELSE
    [id          |-> AppendValue(bs.id, r.id),
     desc        |-> AppendOption(bs.desc, r.description),
     seq         |-> AppendValue(bs.seq, r.sequence),
     quality     |-> AppendValue(bs.quality, r.quality),
     read_number |-> AppendValue(bs.read_number, <<"number", n>>)]

\* finish() / StringArray::from: the array holding the builder's entries.
Finish(b, col) ==
  [type |-> BuilderType(b), data |-> col]

\* Array::len
ArrayLen(a) ==
  IF a.type = "Map" THEN Len(a.data.offsets) ELSE Len(a.data)

\* The vec![...] of finished arrays, in the order the converter lists them.
FinishedArrays(c, bs) ==
  [i \in 1..Len(BatchOrder(c)) |-> Finish(BatchOrder(c)[i], bs[BatchOrder(c)[i]])]

\* RecordBatch::try_new succeeds when there is one array per schema field,
\* of the field's type, and all arrays have the same length.
TryNewOk(schema, columns) ==
  /\ Len(columns) = Len(schema)
  /\ \A i \in 1..Len(columns) : columns[i].type = schema[i].type
  /\ \A i, j \in 1..Len(columns) : ArrayLen(columns[i]) = ArrayLen(columns[j])

RecordBatch(schema, columns) ==
  [schema |-> schema, columns |-> columns]

\* RecordBatch::num_rows
NumRows(rb) ==
  ArrayLen(rb.columns[1])

\* The builders are left as they are after a batch: nothing resets them.
BuildersAfterBatchMut(c, bs) ==
  bs

\* fq2pq's read-number builder, which the reset block does not replace,
\* keeps its entries after a batch.
BuildersAfterBatchKeepNumberMut(c, bs) ==
  IF c = "fq2pq"
    THEN [NewBuilders(c) EXCEPT !.read_number = bs.read_number]
    ELSE NewBuilders(c)

\* The builders the next chunk starts from, once a batch is written. Every
\* finish() leaves its builder empty; fq2pq also replaces its four string
\* builders by new ones; gff2pq and write_records_to_file drop theirs at the
\* end of the loop body.
BuildersAfterBatch(c, bs) ==
  NewBuilders(c)

\* The builders at the top of the outer loop's body: gff2pq and
\* write_records_to_file declare theirs there, fq2pq declares its builders
\* before the loop and keeps them.
BuildersAtChunkStart(c, bs) ==
  IF c = "fq2pq" THEN bs ELSE NewBuilders(c)

-----------------------------------------------------------------------------
(* The chunk iterator: records.into_iter().chunks(chunk_size) *)

\* What a pull on the decoder can give: the next decode result, or the end of
\* the input (always, once MaxLen results were read).
EndOfInput ==
  [kind |-> "None"]

PullOutcomes ==
  {EndOfInput} \cup
  (IF Len(pulled) < MaxLen THEN DecodeResults(conv, Len(pulled)) ELSE {})

\* The chunk key function: the count of elements keyed into the current
\* chunk after one more element, and whether that element opens a new chunk.
KeyIndexAfter(ix, size) ==
  IF ix = size THEN 1 ELSE ix + 1

\* The chunk boundary is looked for one element too late.
OpensNewChunkMut(ix, size) ==
  ix > size

OpensNewChunk(ix, size) ==
  ix = size

-----------------------------------------------------------------------------
(* The conversion *)

Init ==
  /\ conv \in Converters
  /\ chunk_size \in 1..MaxChunkSize
  /\ pc = "open_input"
  /\ pulled = << >>
  /\ chunks = [index |-> 0, first |-> NoElt, current_elt |-> NoElt, done |-> FALSE]
  /\ builders = NewBuilders(conv)
  /\ read_number = 0
  /\ in_opened = FALSE
  /\ out_created = FALSE
  /\ sink_state = "Unopened"
  /\ sink = << >>
  /\ close_calls = 0
  /\ consumed = 0
  /\ result = "none"
  /\ error = "none"

\* The converter returns Err(e) to its caller.
ReturnErr(e) ==
  /\ result' = "Err"
  /\ error' = e
  /\ pc' = "done"

\* The converter panics with e.
Panic(e) ==
  /\ result' = "panic"
  /\ error' = e
  /\ pc' = "done"

\* fs::File::open(input)?
OpenInput ==
  /\ pc = "open_input"
  /\ in_opened' = TRUE
  /\ pc' = "create_output"
  /\ UNCHANGED <<conv, chunk_size, pulled, chunks, builders, read_number,
                 out_created, sink_state, sink, close_calls, consumed, result, error>>

\* The output file is created before the input is opened, so it exists
\* when the open fails.
OpenInputFailMut ==
  /\ pc = "open_input"
  /\ out_created' = TRUE
  /\ ReturnErr("open")
  /\ UNCHANGED <<conv, chunk_size, pulled, chunks, builders, read_number, in_opened,
                 sink_state, sink, close_calls, consumed>>

OpenInputFail ==
  /\ pc = "open_input"
  /\ ReturnErr("open")
  /\ UNCHANGED <<conv, chunk_size, pulled, chunks, builders, read_number, in_opened,
                 out_created, sink_state, sink, close_calls, consumed>>

\* fs::File::create(output)?
CreateOutput ==
  /\ pc = "create_output"
  /\ out_created' = TRUE
  /\ pc' = "writer_new"
  /\ UNCHANGED <<conv, chunk_size, pulled, chunks, builders, read_number, in_opened,
                 sink_state, sink, close_calls, consumed, result, error>>

CreateOutputFail ==
  /\ pc = "create_output"
  /\ ReturnErr("create")
  /\ UNCHANGED <<conv, chunk_size, pulled, chunks, builders, read_number, in_opened,
                 out_created, sink_state, sink, close_calls, consumed>>

\* ArrowWriter::try_new(file, schema, props)?, then the locals declared
\* before the loop (fq2pq: the five builders and read_number = 0).
WriterTryNew ==
  /\ pc = "writer_new"
  /\ sink_state' = "Open"
  /\ builders' = NewBuilders(conv)
  /\ read_number' = 0
  /\ pc' = "chunks_next"
  /\ UNCHANGED <<conv, chunk_size, pulled, chunks, in_opened, out_created, sink,
                 close_calls, consumed, result, error>>

WriterTryNewFail ==
  /\ pc = "writer_new"
  /\ ReturnErr("writer_new")
  /\ UNCHANGED <<conv, chunk_size, pulled, chunks, builders, read_number, in_opened,
                 out_created, sink_state, sink, close_calls, consumed>>

\* An input without a first element is reported as a failure instead of as
\* an empty sequence of chunks.
ChunksNextMut ==
  /\ pc = "chunks_next"
  /\ IF chunks.current_elt # NoElt THEN
       /\ chunks' = [chunks EXCEPT !.first = chunks.current_elt, !.current_elt = NoElt]
       /\ pulled' = pulled
       /\ pc' = "chunk"
       /\ UNCHANGED <<result, error>>
     ELSE IF chunks.done THEN
       /\ pc' = "close"
       /\ UNCHANGED <<chunks, pulled, result, error>>
     ELSE
       \E e \in PullOutcomes :
         IF e = EndOfInput THEN
           /\ chunks' = [chunks EXCEPT !.done = TRUE]
           /\ pulled' = pulled
           /\ IF pulled = << >>
                THEN ReturnErr("parse")
                ELSE pc' = "close" /\ UNCHANGED <<result, error>>
         ELSE
           /\ chunks' = [chunks EXCEPT !.first = e,
                                       !.index = KeyIndexAfter(chunks.index, chunk_size)]
           /\ pulled' = Append(pulled, e)
           /\ pc' = "chunk"
           /\ UNCHANGED <<result, error>>
  /\ builders' = IF pc' = "chunk" THEN BuildersAtChunkStart(conv, builders) ELSE builders
  /\ consumed' = 0
  /\ UNCHANGED <<conv, chunk_size, read_number, in_opened, out_created, sink_state,
                 sink, close_calls>>

\* `for chunk in ...chunks(chunk_size)`: the outer loop asks for the next
\* chunk. The iterator hands out the element it read ahead, or pulls one; a
\* chunk exists only if it has a first element.
ChunksNext ==
  /\ pc = "chunks_next"
  /\ IF chunks.current_elt # NoElt THEN
       /\ chunks' = [chunks EXCEPT !.first = chunks.current_elt, !.current_elt = NoElt]
       /\ pulled' = pulled
       /\ pc' = "chunk"
     ELSE IF chunks.done THEN
       /\ pc' = "close"
       /\ UNCHANGED <<chunks, pulled>>
     ELSE
       \E e \in PullOutcomes :
         IF e = EndOfInput THEN
           /\ chunks' = [chunks EXCEPT !.done = TRUE]
           /\ pulled' = pulled
           /\ pc' = "close"
         ELSE
           /\ chunks' = [chunks EXCEPT !.first = e,
                                       !.index = KeyIndexAfter(chunks.index, chunk_size)]
           /\ pulled' = Append(pulled, e)
           /\ pc' = "chunk"
  /\ builders' = IF pc' = "chunk" THEN BuildersAtChunkStart(conv, builders) ELSE builders
  /\ consumed' = 0
  /\ UNCHANGED <<conv, chunk_size, read_number, in_opened, out_created, sink_state,
                 sink, close_calls, result, error>>

\* `for chunk_i in chunk`: the inner loop asks the chunk for its next
\* element. A chunk first hands out its first element; after that it pulls
\* from the decoder, and an element that belongs to the next chunk is kept
\* as current_elt and ends this chunk, as does the end of the input.
\* InnerPulls: what the request reads from the decoder (NoElt: nothing).
InnerPulls ==
  IF chunks.first # NoElt \/ chunks.done THEN {NoElt} ELSE PullOutcomes

\* The element the inner loop receives (NoElt: the chunk is over).
Delivered(d) ==
  IF chunks.first # NoElt THEN chunks.first
  ELSE IF chunks.done \/ d = EndOfInput \/ OpensNewChunk(chunks.index, chunk_size)
    THEN NoElt
  ELSE d

\* The element read ahead at a chunk boundary is not kept.
ChunksAfterMut(d) ==
  IF chunks.first # NoElt THEN [chunks EXCEPT !.first = NoElt]
  ELSE IF chunks.done THEN chunks
  ELSE IF d = EndOfInput THEN [chunks EXCEPT !.done = TRUE]
  ELSE [chunks EXCEPT !.index = KeyIndexAfter(chunks.index, chunk_size)]

\* The chunk iterator after the request.
ChunksAfter(d) ==
  IF chunks.first # NoElt THEN [chunks EXCEPT !.first = NoElt]
  ELSE IF chunks.done THEN chunks
  ELSE IF d = EndOfInput THEN [chunks EXCEPT !.done = TRUE]
  ELSE [chunks EXCEPT
          !.index = KeyIndexAfter(chunks.index, chunk_size),
          !.current_elt = IF OpensNewChunk(chunks.index, chunk_size) THEN d ELSE NoElt]

\* The input read so far, after the request.
PulledAfter(d) ==
  IF d \in {NoElt, EndOfInput} THEN pulled ELSE Append(pulled, d)

\* An element that decoded: the record is converted and appended to every
\* builder; fq2pq then increments read_number.
ChunkRecord ==
  /\ pc = "chunk"
  /\ \E d \in InnerPulls :
       /\ Delivered(d) # NoElt
       /\ Delivered(d).kind = "Ok"
       /\ chunks' = ChunksAfter(d)
       /\ pulled' = PulledAfter(d)
       /\ \E order \in IterationOrders(Delivered(d).attrs) :
            builders' = AppendRecord(conv, builders,
                                     RecordFrom(conv, Delivered(d), order), read_number)
  /\ read_number' = IF conv = "fq2pq" THEN read_number + 1 ELSE read_number
  /\ consumed' = consumed + 1
  /\ UNCHANGED <<conv, chunk_size, pc, in_opened, out_created, sink_state, sink,
                 close_calls, result, error>>

\* An element that decoded, and an append that fails: gff2pq and fq2pq
\* return the error (`?`), write_records_to_file panics (`.expect`).
ChunkRecordAppendFail ==
  /\ pc = "chunk"
  /\ \E d \in InnerPulls :
       /\ Delivered(d) # NoElt
       /\ Delivered(d).kind = "Ok"
       /\ chunks' = ChunksAfter(d)
       /\ pulled' = PulledAfter(d)
  /\ IF conv = "fa2pq" THEN Panic("append") ELSE ReturnErr("append")
  /\ UNCHANGED <<conv, chunk_size, builders, read_number, in_opened, out_created,
                 sink_state, sink, close_calls, consumed>>

\* The parse error is dropped and the loop goes on to the next element.
ChunkRecordErrMut ==
  /\ pc = "chunk"
  /\ \E d \in InnerPulls :
       /\ Delivered(d) # NoElt
       /\ Delivered(d).kind = "Err"
       /\ chunks' = ChunksAfter(d)
       /\ pulled' = PulledAfter(d)
  /\ UNCHANGED <<conv, chunk_size, pc, builders, read_number, in_opened, out_created,
                 sink_state, sink, close_calls, consumed, result, error>>

\* An element that is a parse error: gff2pq (`chunk_i?`) and fq2pq
\* (`return Err(e.into())`) return it, write_records_to_file panics with it.
ChunkRecordErr ==
  /\ pc = "chunk"
  /\ \E d \in InnerPulls :
       /\ Delivered(d) # NoElt
       /\ Delivered(d).kind = "Err"
       /\ chunks' = ChunksAfter(d)
       /\ pulled' = PulledAfter(d)
  /\ IF conv = "fa2pq" THEN Panic("parse") ELSE ReturnErr("parse")
  /\ UNCHANGED <<conv, chunk_size, builders, read_number, in_opened, out_created,
                 sink_state, sink, close_calls, consumed>>

\* The chunk is over: the inner loop ends.
ChunkEnd ==
  /\ pc = "chunk"
  /\ \E d \in InnerPulls :
       /\ Delivered(d) = NoElt
       /\ chunks' = ChunksAfter(d)
       /\ pulled' = PulledAfter(d)
  /\ pc' = "flush"
  /\ UNCHANGED <<conv, chunk_size, builders, read_number, in_opened, out_created,
                 sink_state, sink, close_calls, consumed, result, error>>

\* The emptiness test is off by one.
HasBatchMut ==
  conv = "fq2pq" => Len(builders.id) > 1

\* fq2pq writes a batch only `if id_builder.len() > 0`; the other two always.
HasBatch ==
  conv = "fq2pq" => Len(builders.id) > 0

\* The end of the outer loop's body: the arrays are finished, the batch is
\* assembled (RecordBatch::try_new(...)?) and written (writer.write(&rb)?),
\* and the builders are left for the next chunk.
FlushBatch ==
  /\ pc = "flush"
  /\ LET columns == FinishedArrays(conv, builders) IN
       IF ~HasBatch THEN
         /\ pc' = "chunks_next"
         /\ UNCHANGED <<builders, sink, result, error>>
       ELSE IF ~TryNewOk(FileSchema(conv), columns) THEN
         /\ ReturnErr("try_new")
         /\ UNCHANGED <<builders, sink>>
       ELSE
         /\ sink' = Append(sink, RecordBatch(FileSchema(conv), columns))
         /\ builders' = BuildersAfterBatch(conv, builders)
         /\ pc' = "chunks_next"
         /\ UNCHANGED <<result, error>>
  /\ UNCHANGED <<conv, chunk_size, pulled, chunks, read_number, in_opened, out_created,
                 sink_state, close_calls, consumed>>

\* writer.write(&rb)? fails.
FlushBatchWriteFail ==
  /\ pc = "flush"
  /\ HasBatch
  /\ TryNewOk(FileSchema(conv), FinishedArrays(conv, builders))
  /\ ReturnErr("write")
  /\ UNCHANGED <<conv, chunk_size, pulled, chunks, builders, read_number, in_opened,
                 out_created, sink_state, sink, close_calls, consumed>>

\* Ok(()) is returned without the writer being closed.
WriterCloseMut ==
  /\ pc = "close"
  /\ result' = "Ok"
  /\ pc' = "done"
  /\ UNCHANGED <<conv, chunk_size, pulled, chunks, builders, read_number, in_opened,
                 out_created, sink_state, sink, close_calls, consumed, error>>

\* writer.close()?; Ok(())
WriterClose ==
  /\ pc = "close"
  /\ close_calls' = close_calls + 1
  /\ sink_state' = "Closed"
  /\ result' = "Ok"
  /\ pc' = "done"
  /\ UNCHANGED <<conv, chunk_size, pulled, chunks, builders, read_number, in_opened,
                 out_created, sink, consumed, error>>

\* writer.close()? fails.
WriterCloseFail ==
  /\ pc = "close"
  /\ close_calls' = close_calls + 1
  /\ sink_state' = "Closed"
  /\ ReturnErr("close")
  /\ UNCHANGED <<conv, chunk_size, pulled, chunks, builders, read_number, in_opened,
                 out_created, sink, consumed>>

Next ==
  \/ OpenInput
  \/ OpenInputFail
  \/ CreateOutput
  \/ CreateOutputFail
  \/ WriterTryNew
  \/ WriterTryNewFail
  \/ ChunksNext
  \/ ChunkRecord
  \/ ChunkRecordAppendFail
  \/ ChunkRecordErr
  \/ ChunkEnd
  \/ FlushBatch
  \/ FlushBatchWriteFail
  \/ WriterClose
  \/ WriterCloseFail

Spec ==
  Init /\ [][Next]_vars

TypeOK ==
  /\ pc \in {"open_input", "create_output", "writer_new", "chunks_next", "chunk",
             "flush", "close", "done"}
  /\ result \in {"none", "Ok", "Err", "panic"}
  /\ sink_state \in {"Unopened", "Open", "Closed"}
  /\ Len(pulled) <= MaxLen

-----------------------------------------------------------------------------
(* Reading the run: the input, the batches and their rows *)

\* The records that decoded, among the decode results read so far.
DecodedCount ==
  Cardinality({i \in 1..Len(pulled) : pulled[i].kind = "Ok"})

\* Rows of the first n batches of the sink.
RECURSIVE RowsUpTo(_)
RowsUpTo(n) ==
  IF n = 0 THEN 0 ELSE RowsUpTo(n - 1) + NumRows(sink[n])

RowsWritten ==
  RowsUpTo(Len(sink))

\* The map entry sealed for row j of a map array: its (key, value) pairs.
MapEntry(m, j) ==
  LET lo == IF j = 1 THEN 0 ELSE m.offsets[j - 1]
      hi == m.offsets[j]
  IN [i \in 1..(hi - lo) |-> <<m.keys[lo + i], m.values[lo + i]>>]

\* Row j of an array.
ArrayAt(a, j) ==
  IF a.type = "Map" THEN MapEntry(a.data, j) ELSE a.data[j]

\* The position in a batch of the schema column called name.
ColumnIndex(rb, name) ==
  CHOOSE i \in 1..Len(rb.schema) : rb.schema[i].name = name

\* Row j of the column called name.
Cell(rb, name, j) ==
  ArrayAt(rb.columns[ColumnIndex(rb, name)], j)

\* The column that identifies a record, and the source field it comes from.
KeyColumn ==
  IF conv = "gff2pq" THEN "seqname" ELSE "id"

\* The n-th written row (1-based, over all batches in write order) is row
\* RowIn(n) of batch BatchOf(n).
BatchOf(n) ==
  CHOOSE b \in 1..Len(sink) : RowsUpTo(b - 1) < n /\ n <= RowsUpTo(b)

RowIn(n) ==
  n - RowsUpTo(BatchOf(n) - 1)

\* The key column over all written rows, in write order.
WrittenKeys ==
  [n \in 1..RowsWritten |-> Cell(sink[BatchOf(n)], KeyColumn, RowIn(n))]

\* The key field of the input read so far, in input order.
InputKeys ==
  [i \in 1..Len(pulled) |-> <<KeyColumn, pulled[i].pos>>]

IsPrefix(s, t) ==
  /\ Len(s) <= Len(t)
  /\ \A i \in 1..Len(s) : s[i] = t[i]

\* The run returned Ok(()).
Succeeded ==
  result = "Ok"

-----------------------------------------------------------------------------
(* Claims *)

\* C1: whenever a batch is handed to the sink's write, in any of the three
\* converters and for any chunk of the input, all of its column arrays have
\* the same length, and that length is the number of records consumed in the
\* chunk: no builder carries entries over from an earlier chunk.
C1_BatchColumnsAligned ==
  [][sink' # sink =>
       /\ Len(sink') = Len(sink) + 1
       /\ \A i \in 1..Len(sink) : sink'[i] = sink[i]
       /\ Len(sink'[Len(sink')].columns) = Len(FileSchema(conv))
       /\ \A i \in 1..Len(sink'[Len(sink')].columns) :
            ArrayLen(sink'[Len(sink')].columns[i]) = consumed]_vars

\* fq2pq has written a second batch, built by the builders that built the first.
C1_Witness ==
  /\ conv = "fq2pq"
  /\ Len(sink) = 2
  /\ NumRows(sink[2]) = consumed
  /\ pc = "chunks_next"

\* C2: when every record of the input decoded and the run returned success,
\* the rows of the written batches, in write order, are the input records in
\* input order; and at any time the written rows are the first records of
\* the input, in order: none dropped, duplicated or reordered.
C2_OrderPreserved ==
  /\ IsPrefix(WrittenKeys, InputKeys)
  /\ Succeeded => WrittenKeys = InputKeys

\* A successful run over three chunks, the last one partial.
C2_Witness ==
  /\ Succeeded
  /\ Len(sink) = 3
  /\ Len(pulled) = 2 * chunk_size + 1
  /\ WrittenKeys = InputKeys

\* C3: a successful run over kN+r records (0 <= r < N) wrote k batches of N
\* rows, then one batch of r rows if r > 0, and nothing else; no batch in the
\* sink has zero rows.
C3_ChunkBoundaries ==
  /\ \A b \in 1..Len(sink) : NumRows(sink[b]) > 0
  /\ Succeeded =>
       LET k == Len(pulled) \div chunk_size
           r == Len(pulled) % chunk_size
       IN /\ Len(sink) = k + (IF r > 0 THEN 1 ELSE 0)
          /\ \A b \in 1..k : NumRows(sink[b]) = chunk_size
          /\ r > 0 => NumRows(sink[k + 1]) = r

\* A successful run over exactly two full chunks: two batches, no third.
C3_Witness ==
  /\ Succeeded
  /\ chunk_size = 2
  /\ Len(pulled) = 4
  /\ Len(sink) = 2

\* C4 as claimed: at the end of every run, successful or failed, the rows
\* written add up to the number of records that decoded.
C4_RowsEqualDecodedAlways ==
  pc = "done" => RowsWritten = DecodedCount

\* C4 as amended: at the end of a run that returns success the rows written
\* add up to the number of records that decoded; in a run that stops on a
\* failure they never exceed it.
C4_RowsEqualDecodedOnSuccess ==
  /\ RowsWritten <= DecodedCount
  /\ Succeeded => RowsWritten = DecodedCount

\* A successful run that decoded and wrote records in more than one batch.
C4_Witness ==
  /\ Succeeded
  /\ Len(sink) = 2
  /\ DecodedCount = chunk_size + 1
  /\ RowsWritten = DecodedCount

\* C5: a parse error is the last thing read from the decoder; once a
\* converter has met it, the sink holds exactly the complete chunks before
\* the chunk of the failing position p (p div N batches of N rows, the first
\* records of the input), and nothing is written afterwards.
C5_FailFastOnParseError ==
  /\ [](\A i \in 1..Len(pulled) : pulled[i].kind = "Err" => i = Len(pulled))
  /\ [](error = "parse" =>
          /\ pulled # << >>
          /\ pulled[Len(pulled)].kind = "Err"
          /\ Len(sink) = (Len(pulled) - 1) \div chunk_size
          /\ \A b \in 1..Len(sink) : NumRows(sink[b]) = chunk_size
          /\ IsPrefix(WrittenKeys, InputKeys))
  /\ [][error = "parse" => sink' = sink /\ pulled' = pulled]_vars

\* A parse error in the middle of the second chunk: one batch was written.
C5_Witness ==
  /\ error = "parse"
  /\ chunk_size = 2
  /\ Len(pulled) = 4
  /\ Len(sink) = 1

\* Some decode result read so far is a parse error.
ParseErrorRead ==
  \E i \in 1..Len(pulled) : pulled[i].kind = "Err"

\* C6 as claimed: in all three converters a parse error the converter meets
\* ends the run by returning that error to the caller: it is never turned
\* into success, swallowed, or ended in any other way than a returned Err.
C6_ParseErrorReturned ==
  /\ error = "parse" => result = "Err"
  /\ Succeeded => ~ParseErrorRead
  /\ (pc = "done" /\ ParseErrorRead /\ error # "write") =>
       result = "Err" /\ error = "parse"

\* C7: the sink goes Unopened -> Open -> Closed: a batch is written only
\* while it is Open, close is called at most once and nothing is written or
\* closed after it, and a run that returns success has called close exactly
\* once, after its last write (full or partial chunk).
C7_SinkLifecycle ==
  /\ [](close_calls <= 1)
  /\ [](sink_state = "Unopened" => sink = << >> /\ close_calls = 0)
  /\ [](sink_state = "Closed" <=> close_calls = 1)
  /\ [](Succeeded => close_calls = 1 /\ sink_state = "Closed")
  /\ [][sink' # sink => sink_state = "Open" /\ sink_state' = "Open"]_vars
  /\ [][sink_state' # sink_state =>
          \/ sink_state = "Unopened" /\ sink_state' = "Open"
          \/ sink_state = "Open" /\ sink_state' = "Closed"]_vars
  /\ [][close_calls >= 1 => sink' = sink /\ close_calls' = close_calls]_vars

\* A successful run whose last chunk was partial: closed once, after two writes.
C7_Witness ==
  /\ Succeeded
  /\ chunk_size = 3
  /\ Len(pulled) = 4
  /\ Len(sink) = 2
  /\ NumRows(sink[2]) = 1
  /\ close_calls = 1
  /\ sink_state = "Closed"

\* The decoder reported the end of the input at the first pull.
ZeroRecords ==
  pulled = << >> /\ chunks.done

\* C8: on an input with zero records the sink has been opened, no batch is
\* written, close is called exactly once and the run returns success (the
\* only other way it can end is the close call itself failing).
C8_EmptyInput ==
  ZeroRecords =>
    /\ sink = << >>
    /\ sink_state # "Unopened"
    /\ pc \in {"close", "done"}
    /\ pc = "close" => close_calls = 0 /\ sink_state = "Open" /\ result = "none"
    /\ pc = "done" =>
         /\ close_calls = 1
         /\ sink_state = "Closed"
         /\ Succeeded \/ (result = "Err" /\ error = "close")

\* A run over zero records has returned success.
C8_Witness ==
  /\ ZeroRecords
  /\ Succeeded
  /\ sink = << >>
  /\ close_calls = 1

\* C9 as claimed: a converter returns success exactly when the whole input
\* was consumed, every batch was written and close succeeded; after a failed
\* append, batch assembly or write the run is over, with no close, and the
\* failure is returned to the caller.
C9_NoPartialSuccess ==
  /\ Succeeded <=>
       /\ pc = "done"
       /\ chunks.done
       /\ chunks.first = NoElt /\ chunks.current_elt = NoElt
       /\ DecodedCount = Len(pulled)
       /\ RowsWritten = DecodedCount
       /\ close_calls = 1
       /\ error = "none"
  /\ error \in {"append", "try_new", "write"} =>
       /\ pc = "done"
       /\ close_calls = 0
       /\ result = "Err"

\* The columns the claim names as nullable; each is fed from the record
\* field of the same name.
ClaimedNullable ==
  IF conv = "gff2pq" THEN {"source", "score", "frame"} ELSE {"description"}

\* C10 as claimed: in every written row, each nullable column holds a null
\* where the record's field is absent and the field's value where it is
\* present (row n comes from the n-th record of the input).
C10_AbsentIsNull ==
  \A n \in 1..RowsWritten :
    \A col \in ClaimedNullable :
      Cell(sink[BatchOf(n)], col, RowIn(n)) =
        (IF col \in pulled[n].absent THEN NULL ELSE <<col, pulled[n].pos>>)

\* The attribute list of a source record as the claim expects it in the map
\* entry of its row: the source's pairs in the source's order, an absent
\* value as a null.
ExpectedAttributes(rec) ==
  [i \in 1..Len(rec.attrs) |->
     <<rec.attrs[i][1],
       IF rec.attrs[i][2] = NONE THEN NULL ELSE rec.attrs[i][2]>>]

\* C11 as claimed: in gff2pq the map entry sealed for each written row holds
\* exactly the record's attributes: as many keys as values, each value with
\* its key, in the order of the source, an absent value as a null, and
\* nothing from a neighbouring record.
C11_AttributeMapFidelity ==
  conv = "gff2pq" =>
    \A n \in 1..RowsWritten :
      Cell(sink[BatchOf(n)], "attribute", RowIn(n)) = ExpectedAttributes(pulled[n])

\* C12: in fq2pq the number column of the record at 0-based input position i
\* is i. read_number is 0 when the loop starts, is the count of records
\* appended so far at any time, and goes on across chunk boundaries, so the
\* numbers of the written rows and of the rows still in the builder are
\* 0, 1, 2, ... without gap or repeat.
C12_ReadNumberIsPosition ==
  conv = "fq2pq" =>
    /\ read_number = RowsWritten + Len(builders.read_number)
    /\ \A n \in 1..RowsWritten :
         /\ Cell(sink[BatchOf(n)], "number", RowIn(n)) = <<"number", n - 1>>
         /\ pulled[n].pos = n - 1
    /\ \A i \in 1..Len(builders.read_number) :
         builders.read_number[i] = <<"number", RowsWritten + i - 1>>

\* fq2pq has written two chunks; the second batch starts at number chunk_size.
C12_Witness ==
  /\ conv = "fq2pq"
  /\ Succeeded
  /\ chunk_size = 2
  /\ Len(sink) = 2
  /\ read_number = 4
  /\ Cell(sink[2], "number", 1) = <<"number", 2>>
  /\ Cell(sink[2], "number", 2) = <<"number", 3>>

\* The number of records a builder holds.
BuilderLen(b) ==
  IF b = "attribute" THEN Len(builders[b].offsets) ELSE Len(builders[b])

\* C13: no builder ever holds more than chunk_size records; while a chunk is
\* being read every builder holds exactly the records appended since the
\* chunk began, so all of them (fq2pq's read-number builder too) are empty
\* when the chunk's first record is appended; and the records in the
\* builders belong to one chunk.
C13_BuildersHoldOneChunk ==
  /\ consumed <= chunk_size
  /\ \A b \in BuilderNames(conv) : BuilderLen(b) <= chunk_size
  /\ pc \in {"chunk", "flush"} =>
       \A b \in BuilderNames(conv) : BuilderLen(b) = consumed
  /\ (pc = "chunk" /\ consumed = 0) => builders = NewBuilders(conv)
  /\ LET keys == builders[BatchOrder(conv)[1]] IN
       \A i, j \in 1..Len(keys) :
         keys[i][2] \div chunk_size = keys[j][2] \div chunk_size

\* fq2pq is about to append the first record of its second chunk.
C13_Witness ==
  /\ conv = "fq2pq"
  /\ pc = "chunk"
  /\ consumed = 0
  /\ chunks.first # NoElt
  /\ Len(sink) = 1
  /\ builders.read_number = << >>

\* Whether cell is what schema column col holds for the source record rec
\* written as the n-th row, if the column is fed from the record field it
\* names: the field of the typed record r (a null for an absent Option), the
\* record's read number for fq2pq's number, the record's attributes in one
\* of the orders the map can be iterated in for GFF's attribute.
IsFieldOf(cell, col, rec, r, n) ==
  IF col = "number" THEN cell = <<"number", n - 1>>
  ELSE IF col = "attribute" THEN
    \E order \in IterationOrders(rec.attrs) :
      cell = RecordFrom(conv, rec, order).attribute
  ELSE cell = (IF r[col] = NONE THEN NULL ELSE r[col])

\* C14: in every written batch the array at the position of schema column c
\* is the one built from record field c, so row j of column c holds field c
\* of the j-th record of the chunk, for every column of every converter.
C14_ColumnsBoundToTheirFields ==
  \A b \in 1..Len(sink) :
    \A j \in 1..NumRows(sink[b]) :
      LET n   == RowsUpTo(b - 1) + j
          rec == pulled[n]
          r   == RecordFrom(conv, rec, rec.attrs)
      IN \A i \in 1..Len(sink[b].schema) :
           IsFieldOf(ArrayAt(sink[b].columns[i], j), sink[b].schema[i].name, rec, r, n)

\* fq2pq has written a record with a description: sequence and description
\* sit in their own columns.
C14_Witness ==
  /\ conv = "fq2pq"
  /\ Len(sink) >= 1
  /\ pulled[1].absent = {}
  /\ Cell(sink[1], "sequence", 1) = <<"sequence", 0>>
  /\ Cell(sink[1], "description", 1) = <<"description", 0>>
  /\ Cell(sink[1], "quality", 1) = <<"quality", 0>>

\* C15: the input is opened before the output is created, and the output is
\* created (and the writer opened) before anything is pulled from the
\* decoder. A failed open of the input is returned with the output file not
\* created and the sink never opened; when a parse error ends the run, even
\* on the first record, the output file exists and was not finalized.
C15_OpenCreatePullOrder ==
  /\ out_created => in_opened
  /\ sink_state # "Unopened" => out_created
  /\ (pulled # << >> \/ chunks.done) => out_created /\ sink_state # "Unopened"
  /\ error = "open" =>
       /\ result = "Err"
       /\ ~in_opened
       /\ ~out_created
       /\ sink_state = "Unopened"
       /\ pulled = << >>
  /\ error = "parse" =>
       /\ out_created
       /\ sink_state = "Open"
       /\ close_calls = 0

\* The first record is a parse error: the output was created, not finalized.
C15_Witness ==
  /\ error = "parse"
  /\ Len(pulled) = 1
  /\ out_created
  /\ sink = << >>
  /\ close_calls = 0

====
